---- MODULE Spec2Model ----
(***************************************************************************)
(* Model of multifit/datasets/create_wikitext.py: the article generator    *)
(* get_texts, the scanner findTotalTokens, the budget planner get_splits,  *)
(* the writer write_wikitext and the driver main.                          *)
(*                                                                         *)
(* A string is a sequence of one-character strings.  The records of the    *)
(* input tree are taken from Pool, a catalogue of concrete records; the    *)
(* state refers to a record by its index in Pool.                          *)
(***************************************************************************)
EXTENDS Integers, Sequences, FiniteSets, TLC

\* ------------------------------------------------------------------ bounds
\* Largest number of records (lines of the input files) in the input tree.
MaxArticles == 4
\* Largest |tokens_size| handed to get_splits in SpecPlan.
MaxTokens == 1200
\* Largest number of lines of the file handed to countUnique in SpecVocab,
\* and the largest length of such a line.
MaxLines == 2
MaxLineLen == 2

\* ------------------------------------------------------------ python strings
SP == " "
NL == "\n"
\* The characters str.strip() removes (of the model's alphabet).
Whitespace == {SP, NL}

\* Python's None, and a value that may be None: None is the empty tuple and a
\* value v is the one-element tuple <<v>>.
None == <<>>
Some(v) == <<v>>

\* s.strip(): drop leading and trailing whitespace.
Strip(s) ==
  LET keep == {i \in 1..Len(s) : s[i] \notin Whitespace}
  IN  IF keep = {} THEN <<>>
      ELSE LET lo == CHOOSE i \in keep : \A j \in keep : i <= j
               hi == CHOOSE i \in keep : \A j \in keep : j <= i
           IN  SubSeq(s, lo, hi)

\* s.split(sep) for a one-character separator: the pieces between the
\* occurrences of sep, empty pieces included (always at least one piece).
\* Computed by halving the range lo..hi: the last piece of the left half and
\* the first piece of the right half are one piece.
RECURSIVE SplitRange(_, _, _, _)
SplitRange(s, sep, lo, hi) ==
  IF lo > hi THEN << <<>> >>
  ELSE IF lo = hi THEN (IF s[lo] = sep THEN << <<>>, <<>> >> ELSE << <<s[lo]>> >>)
  ELSE LET mid == (lo + hi) \div 2
           L == SplitRange(s, sep, lo, mid)
           R == SplitRange(s, sep, mid + 1, hi)
       IN  SubSeq(L, 1, Len(L) - 1) \o <<L[Len(L)] \o R[1]>> \o Tail(R)

Split(s, sep) == SplitRange(s, sep, 1, Len(s))

\* [token for token in tokens if token]
NonEmpty(tokens) == SelectSeq(tokens, LAMBDA t : t # <<>>)

\* ' '.join(tokens), computed by halving the range lo..hi.
RECURSIVE JoinRange(_, _, _)
JoinRange(tokens, lo, hi) ==
  IF lo > hi THEN <<>>
  ELSE IF lo = hi THEN tokens[lo]
  ELSE LET mid == (lo + hi) \div 2
       IN  JoinRange(tokens, lo, mid) \o <<SP>> \o JoinRange(tokens, mid + 1, hi)

Join(tokens) == JoinRange(tokens, 1, Len(tokens))

\* mt.tokenize(text): the Moses tokenizer on text made of letters and blanks
\* returns the maximal runs of letters.
Tokenize(text) == NonEmpty(Split(text, SP))

\* mt.tokenize(text, return_str=True): the tokens joined by single blanks.
TokenizeStr(text) == Join(Tokenize(text))

\* ------------------------------------------------------------- the records
Rep(c, n) == [i \in 1..n |-> c]
\* n one-letter words separated by single blanks.
Words(c, n) == [i \in 1..(2 * n - 1) |-> IF i % 2 = 1 THEN c ELSE SP]

Pool == <<
  [title |-> <<"x">>, text |-> Words("a", 149)],
  [title |-> <<"y">>, text |-> Words("a", 49)],
  [title |-> <<"z">>, text |-> Words("a", 199)],
  [title |-> <<"p">>, text |-> <<SP>> \o Words("b", 98) \o <<SP>>],
  [title |-> <<SP, "q">>,
   text |-> <<SP>> \o Words("b", 48) \o <<SP, SP>> \o Words("c", 48)
            \o <<SP, NL, NL, SP, "d">>],
  [title |-> Words("s", 120),
   text |-> <<SP>> \o Words("s", 120) \o <<NL>>],
  [title |-> Words("w", 120) \o <<SP>>,
   text |-> Words("w", 120)] >>

PoolIds == 1..Len(Pool)

\* ------------------------------------------------------ per-article functions
\* get_texts, line 25: the record is skipped when text.strip() == title.
IsStub(article) == Strip(article.text) = article.title

\* write_wikitext, lines 70-74: the tokenized paragraphs of a text.
tokenized_paragraphs(text) ==
  LET paragraphs == Split(text, NL)
  IN  [k \in 1..Len(paragraphs) |-> TokenizeStr(Strip(paragraphs[k]))]

\* Mutant of ParagraphCount: the newline of the paragraph is not counted.
ParagraphCountNoNewline(tokenized) == Len(NonEmpty(Split(tokenized, SP)))

\* write_wikitext, lines 76-80: the tokens counted for one tokenized paragraph.
ParagraphCount(tokenized) == Len(NonEmpty(Split(tokenized, SP))) + 1

RECURSIVE SumCounts(_, _)
SumCounts(tps, k) ==
  IF k = 0 THEN 0 ELSE SumCounts(tps, k - 1) + ParagraphCount(tps[k])

\* write_wikitext, lines 68-80: num_tokens_article after the paragraph loop.
num_tokens_article(text) ==
  LET tps == tokenized_paragraphs(text) IN SumCounts(tps, Len(tps))

\* The least number of tokens of an article that is written (line 82).
MinArticleTokens == 100

\* Mutant of Accepts: an article of exactly 100 tokens is skipped too.
AcceptsAbove(n) == ~(n <= MinArticleTokens)

\* Mutant of Accepts: the threshold is 10 instead of 100.
AcceptsFrom10(n) == ~(n < 10)

\* write_wikitext, line 82: the article is kept unless num_tokens_article < 100.
Accepts(n) == ~(n < MinArticleTokens)

\* Mutant of OverBudget: the comparison is the wrong way round.
OverBudgetInverted(total, num_tokens) == num_tokens # None /\ total < num_tokens[1]

\* Mutant of OverBudget: the budget is tested for truth, so 0 counts as unset.
OverBudgetFalsy(total, num_tokens) ==
  num_tokens # None /\ num_tokens[1] # 0 /\ total > num_tokens[1]

\* write_wikitext, line 92: the break condition after an article is written.
OverBudget(total, num_tokens) == num_tokens # None /\ total > num_tokens[1]

\* write_wikitext, lines 86-89: the lines written for an accepted article.
DocLines(article) ==
  << <<"=", SP>> \o Strip(article.title) \o <<SP, "=">> >>
     \o tokenized_paragraphs(article.text)

\* findTotalTokens, lines 50-55: what one record adds to total.
RECURSIVE ScanParagraphs(_, _)
ScanParagraphs(paragraphs, k) ==
  IF k = 0 THEN 0
  ELSE LET tokenized == Tokenize(Strip(paragraphs[k]))
           token_count == Len(tokenized) + 1
       IN  ScanParagraphs(paragraphs, k - 1)
             + (IF token_count >= MinArticleTokens THEN Len(tokenized) ELSE 0)

ScanArticle(text) ==
  LET paragraphs == Split(text, NL) IN ScanParagraphs(paragraphs, Len(paragraphs))

\* countUnique, line 35: the tokens of str(line).strip().split().
LineTokens(line) ==
  LET flat == [i \in 1..Len(line) |-> IF line[i] \in Whitespace THEN SP ELSE line[i]]
  IN  {t \in {Tokenize(flat)[k] : k \in 1..Len(Tokenize(flat))} : TRUE}

\* The functions above, tabulated once for the records of Pool.
StubOf == [id \in PoolIds |-> IsStub(Pool[id])]
NumTokensOf == [id \in PoolIds |-> num_tokens_article(Pool[id].text)]
ScanOf == [id \in PoolIds |-> ScanArticle(Pool[id].text)]
DocLinesOf == [id \in PoolIds |-> DocLines(Pool[id])]
DocVocabOf ==
  [id \in PoolIds |->
     UNION {LineTokens(DocLinesOf[id][k]) : k \in 1..Len(DocLinesOf[id])}]

\* ------------------------------------------------------------------- state
VARIABLES
  args,             \* [input_exists, tokens]: the input root and --tokens
  source,           \* the records of the input tree in iterdir order (Pool ids)
  run,              \* "first" or "second" run of the script on this input
  pc,               \* where main is
  output_dir,       \* the output directories exist
  mt,               \* the MosesTokenizer is constructed
  tokens_size,      \* main's tokens_size
  scan,             \* findTotalTokens: records read, total, what each added
  token_nums,       \* main's token_nums
  text_iter,        \* the get_texts generator: records consumed, finished
  split,            \* index in splits of the current write_wikitext call
  total_num_tokens, \* write_wikitext's local
  count,            \* write_wikitext's local
  files,            \* per split: the articles in the file, or NoFile
  report,           \* per split: what line 94 printed, <<count, tokens>>
  unique,           \* per split: what countUnique returned
  pulled,           \* history: the articles write_wikitext took from text_iter
  prev,             \* files and report at the end of the previous run
  reader,           \* SpecVocab: the lines of the file countUnique reads
  vocab             \* SpecVocab: what countUnique returned

vars == <<args, source, run, pc, output_dir, mt, tokens_size, scan, token_nums,
          text_iter, split, total_num_tokens, count, files, report, unique,
          pulled, prev, reader, vocab>>

\* main, line 158
splits == <<"train", "valid", "test">>
SplitIds == 1..Len(splits)
\* A path at which there is no file.
NoFile == [exists |-> FALSE, docs |-> <<>>]

\* The values of --tokens tried in Spec.
TokenArgs == {None, Some(-10), Some(0), Some(300)}
\* The budgets handed to the three write_wikitext calls in SpecWriters.
DirectBudgets == {<<250, 50, 50>>, <<0, 0, 0>>, <<100, 250, 0>>}

RECURSIVE SeqsUpTo(_, _)
SeqsUpTo(S, n) ==
  IF n = 0 THEN {<<>>}
  ELSE LET shorter == SeqsUpTo(S, n - 1)
       IN  shorter \cup {Append(q, x) : q \in {r \in shorter : Len(r) = n - 1}, x \in S}

Sources == SeqsUpTo(PoolIds, MaxArticles)

\* --------------------------------------------------------------- get_texts
\* The generator of lines 17-28 resumed with `pos` records consumed: the
\* index of the next record it yields, or 0 when it runs to its end.
NextYield(pos) ==
  LET rest == {j \in (pos + 1)..Len(source) : ~StubOf[source[j]]}
  IN  IF rest = {} THEN 0 ELSE CHOOSE j \in rest : \A k \in rest : j <= k

\* ------------------------------------------------------------- get_splits
\* int(tokens_size * split) for the fraction split = num/den: the product is
\* truncated towards zero.
IntOfProduct(size, frac) ==
  LET n == size * frac.num
  IN  IF n >= 0 THEN n \div frac.den ELSE -((-n) \div frac.den)

\* Mutant of get_splits: train gives up one split only.
get_splits_one(size, fraction) ==
  LET s == IntOfProduct(size, fraction)
  IN  <<size - s, s, s>>

\* lines 132-135
get_splits(size, fraction) ==
  LET s == IntOfProduct(size, fraction)
  IN  <<size - (2 * s), s, s>>

\* main, line 152: the fraction 0.1
Tenth == [num |-> 1, den |-> 10]

\* -------------------------------------------------------------------- main
\* The state of a process that has just started main.
Fresh ==
  /\ pc = "start"
  /\ mt = FALSE
  /\ tokens_size = None
  /\ scan = [pos |-> 0, total |-> 0, added |-> <<>>]
  /\ token_nums = <<>>
  /\ text_iter = [pos |-> 0, done |-> FALSE]
  /\ split = 0
  /\ total_num_tokens = 0
  /\ count = 0
  /\ report = [s \in SplitIds |-> None]
  /\ unique = [s \in SplitIds |-> None]
  /\ pulled = <<>>

Init ==
  /\ args \in [input_exists : BOOLEAN, tokens : TokenArgs]
  /\ source \in (IF args.input_exists THEN Sources ELSE {<<>>})
  /\ run = "first"
  /\ output_dir = FALSE
  /\ files = [s \in SplitIds |-> NoFile]
  /\ prev = None
  /\ Fresh
  /\ reader = <<>>
  /\ vocab = None

\* Mutant of main_assert: the assertion is not made.
main_assert_skipped ==
  /\ pc = "start"
  /\ pc' = "mkdir"
  /\ UNCHANGED <<args, source, run, output_dir, mt, tokens_size, scan, token_nums,
                 text_iter, split, total_num_tokens, count, files, report,
                 unique, pulled, prev>>
  /\ UNCHANGED <<reader, vocab>>

\* lines 139-141: the assertion that the input path exists.
main_assert ==
  /\ pc = "start"
  /\ pc' = IF args.input_exists THEN "mkdir" ELSE "failed"
  /\ UNCHANGED <<args, source, run, output_dir, mt, tokens_size, scan, token_nums,
                 text_iter, split, total_num_tokens, count, files, report,
                 unique, pulled, prev>>
  /\ UNCHANGED <<reader, vocab>>

\* line 142
main_mkdir ==
  /\ pc = "mkdir"
  /\ output_dir' = TRUE
  /\ pc' = "tokenizer"
  /\ UNCHANGED <<args, source, run, mt, tokens_size, scan, token_nums, text_iter,
                 split, total_num_tokens, count, files, report, unique, pulled,
                 prev>>
  /\ UNCHANGED <<reader, vocab>>

\* line 144
main_tokenizer ==
  /\ pc = "tokenizer"
  /\ mt' = TRUE
  /\ pc' = "tokens"
  /\ UNCHANGED <<args, source, run, output_dir, tokens_size, scan, token_nums,
                 text_iter, split, total_num_tokens, count, files, report,
                 unique, pulled, prev>>
  /\ UNCHANGED <<reader, vocab>>

\* lines 146-150: an explicit --tokens is converted, otherwise the scan starts.
main_tokens ==
  /\ pc = "tokens"
  /\ IF args.tokens = None
       THEN /\ pc' = "scan"
            /\ UNCHANGED tokens_size
       ELSE /\ tokens_size' = Some(args.tokens[1])
            /\ pc' = "plan"
  /\ UNCHANGED <<args, source, run, output_dir, mt, scan, token_nums, text_iter,
                 split, total_num_tokens, count, files, report, unique, pulled,
                 prev>>
  /\ UNCHANGED <<reader, vocab>>

\* findTotalTokens, lines 39-56: one record of the input per step; the call
\* returns total when the records are used up.  iterdir raises when the root
\* does not exist.
findTotalTokens_step ==
  /\ pc = "scan"
  /\ IF ~args.input_exists
       THEN /\ pc' = "failed"
            /\ UNCHANGED <<scan, tokens_size>>
       ELSE IF scan.pos = Len(source)
       THEN /\ tokens_size' = Some(scan.total)
            /\ pc' = "plan"
            /\ UNCHANGED scan
       ELSE LET id == source[scan.pos + 1]
                add == IF StubOf[id] THEN 0 ELSE ScanOf[id]
            IN  /\ scan' = [pos |-> scan.pos + 1,
                            total |-> scan.total + add,
                            added |-> Append(scan.added, add)]
                /\ UNCHANGED <<pc, tokens_size>>
  /\ UNCHANGED <<args, source, run, output_dir, mt, token_nums, text_iter, split,
                 total_num_tokens, count, files, report, unique, pulled, prev>>
  /\ UNCHANGED <<reader, vocab>>

\* lines 152-160: the budgets, the generator object, the language directory.
main_plan ==
  /\ pc = "plan"
  /\ token_nums' = get_splits(tokens_size[1], Tenth)
  /\ text_iter' = [pos |-> 0, done |-> FALSE]
  /\ split' = 1
  /\ pc' = "loop"
  /\ UNCHANGED <<args, source, run, output_dir, mt, tokens_size, scan,
                 total_num_tokens, count, files, report, unique, pulled, prev>>
  /\ UNCHANGED <<reader, vocab>>

\* Mutant of OpenFile: the file is opened for appending whatever the mode.
OpenFileAppend(file, mode) == [exists |-> TRUE, docs |-> file.docs]

\* open(file_path, mode): what the file holds once it is opened.
OpenFile(file, mode) ==
  [exists |-> TRUE, docs |-> IF mode = "w" THEN <<>> ELSE file.docs]

\* Mutant of write_wikitext_open: every call gets a new get_texts generator.
write_wikitext_open_restart ==
  /\ pc = "loop"
  /\ split \in SplitIds
  /\ total_num_tokens' = 0
  /\ count' = 0
  /\ files' = [files EXCEPT ![split] = [exists |-> TRUE, docs |-> <<>>]]
  /\ text_iter' = [pos |-> 0, done |-> FALSE]
  /\ pc' = "write"
  /\ UNCHANGED <<args, source, run, output_dir, mt, tokens_size, scan, token_nums,
                 split, report, unique, pulled, prev>>
  /\ UNCHANGED <<reader, vocab>>

\* Mutant of write_wikitext_open: the counters are not set to zero, as if
\* they were made once for the three calls.
write_wikitext_open_keep ==
  /\ pc = "loop"
  /\ split \in SplitIds
  /\ files' = [files EXCEPT ![split] = OpenFile(files[split], "w")]
  /\ pc' = "write"
  /\ UNCHANGED <<args, source, run, output_dir, mt, tokens_size, scan, token_nums,
                 text_iter, split, total_num_tokens, count, report, unique,
                 pulled, prev>>
  /\ UNCHANGED <<reader, vocab>>

\* lines 162-164 and 59-64: the next write_wikitext call starts; its counters
\* are zero and its file is opened with the default mode 'w'.
write_wikitext_open ==
  /\ pc = "loop"
  /\ split \in SplitIds
  /\ total_num_tokens' = 0
  /\ count' = 0
  /\ files' = [files EXCEPT ![split] = OpenFile(files[split], "w")]
  /\ pc' = "write"
  /\ UNCHANGED <<args, source, run, output_dir, mt, tokens_size, scan, token_nums,
                 text_iter, split, report, unique, pulled, prev>>
  /\ UNCHANGED <<reader, vocab>>

\* Mutant of write_wikitext_step: at the end of the generator the loop is not
\* left, the call waits for a next article.
write_wikitext_step_spin ==
  /\ pc = "write"
  /\ IF ~args.input_exists
       THEN /\ pc' = "failed"
            /\ UNCHANGED <<text_iter, split, total_num_tokens, count, files,
                           report, pulled>>
       ELSE LET j == IF text_iter.done THEN 0 ELSE NextYield(text_iter.pos)
            IN  IF j = 0
                  THEN UNCHANGED <<text_iter, report, split, pc, total_num_tokens,
                                   count, files, pulled>>
                  ELSE LET n == NumTokensOf[source[j]]
                           total == total_num_tokens + n + 1
                           entry == [idx |-> j, split |-> split, n |-> n,
                                     before |-> total_num_tokens,
                                     docs |-> count]
                       IN  /\ text_iter' = [pos |-> j, done |-> FALSE]
                           /\ pulled' = Append(pulled, entry)
                           /\ IF ~Accepts(n)
                                THEN UNCHANGED <<total_num_tokens, count, files,
                                                 report, split, pc>>
                                ELSE /\ files' = [files EXCEPT
                                                    ![split].docs = Append(@, j)]
                                     /\ count' = count + 1
                                     /\ total_num_tokens' = total
                                     /\ IF OverBudget(total, Some(token_nums[split]))
                                          THEN /\ report' = [report EXCEPT
                                                    ![split] = <<count + 1, total>>]
                                               /\ split' = split + 1
                                               /\ pc' = "loop"
                                          ELSE UNCHANGED <<report, split, pc>>
  /\ UNCHANGED <<args, source, run, output_dir, mt, tokens_size, scan, token_nums,
                 unique, prev>>
  /\ UNCHANGED <<reader, vocab>>

\* lines 65-94: one iteration of the for loop.  The generator runs to its next
\* yield; at its end the loop ends and the call returns.  An article below
\* the threshold is skipped; any other is written and counted, and the loop
\* is left when the budget is exceeded.
write_wikitext_step ==
  /\ pc = "write"
  /\ IF ~args.input_exists
       THEN /\ pc' = "failed"
            /\ UNCHANGED <<text_iter, split, total_num_tokens, count, files,
                           report, pulled>>
       ELSE LET j == IF text_iter.done THEN 0 ELSE NextYield(text_iter.pos)
            IN  IF j = 0
                  THEN /\ text_iter' = [pos |-> Len(source), done |-> TRUE]
                       /\ report' = [report EXCEPT
                                       ![split] = <<count, total_num_tokens>>]
                       /\ split' = split + 1
                       /\ pc' = "loop"
                       /\ UNCHANGED <<total_num_tokens, count, files, pulled>>
                  ELSE LET n == NumTokensOf[source[j]]
                           total == total_num_tokens + n + 1
                           entry == [idx |-> j, split |-> split, n |-> n,
                                     before |-> total_num_tokens,
                                     docs |-> count]
                       IN  /\ text_iter' = [pos |-> j, done |-> FALSE]
                           /\ pulled' = Append(pulled, entry)
                           /\ IF ~Accepts(n)
                                THEN UNCHANGED <<total_num_tokens, count, files,
                                                 report, split, pc>>
                                ELSE /\ files' = [files EXCEPT
                                                    ![split].docs = Append(@, j)]
                                     /\ count' = count + 1
                                     /\ total_num_tokens' = total
                                     /\ IF OverBudget(total, Some(token_nums[split]))
                                          THEN /\ report' = [report EXCEPT
                                                    ![split] = <<count + 1, total>>]
                                               /\ split' = split + 1
                                               /\ pc' = "loop"
                                          ELSE UNCHANGED <<report, split, pc>>
  /\ UNCHANGED <<args, source, run, output_dir, mt, tokens_size, scan, token_nums,
                 unique, prev>>
  /\ UNCHANGED <<reader, vocab>>

\* countUnique, lines 31-36, on the file of split s.
countUnique(file) ==
  Cardinality(UNION {DocVocabOf[source[file.docs[k]]] : k \in 1..Len(file.docs)})

\* lines 167-170: the three files are counted and main returns.
main_count ==
  /\ pc = "loop"
  /\ split = Len(splits) + 1
  /\ unique' = [s \in SplitIds |-> Some(countUnique(files[s]))]
  /\ pc' = "done"
  /\ UNCHANGED <<args, source, run, output_dir, mt, tokens_size, scan, token_nums,
                 text_iter, split, total_num_tokens, count, files, report,
                 pulled, prev>>
  /\ UNCHANGED <<reader, vocab>>

\* The script is started again on the same input and output directories:
\* the files stay, the process starts afresh.
Rerun ==
  /\ pc \in {"done", "failed"}
  /\ run = "first"
  /\ run' = "second"
  /\ prev' = Some([files |-> files, report |-> report])
  /\ pc' = "start"
  /\ mt' = FALSE
  /\ tokens_size' = None
  /\ scan' = [pos |-> 0, total |-> 0, added |-> <<>>]
  /\ token_nums' = <<>>
  /\ text_iter' = [pos |-> 0, done |-> FALSE]
  /\ split' = 0
  /\ total_num_tokens' = 0
  /\ count' = 0
  /\ report' = [s \in SplitIds |-> None]
  /\ unique' = [s \in SplitIds |-> None]
  /\ pulled' = <<>>
  /\ UNCHANGED <<args, source, output_dir, files>>
  /\ UNCHANGED <<reader, vocab>>

Next ==
  \/ main_assert
  \/ main_mkdir
  \/ main_tokenizer
  \/ main_tokens
  \/ findTotalTokens_step
  \/ main_plan
  \/ write_wikitext_open
  \/ write_wikitext_step
  \/ main_count
  \/ Rerun

Spec == Init /\ [][Next]_vars

\* get_splits on its own: tokens_size is any integer of the range and the only
\* step is the planning step of main.
InitPlan ==
  /\ \E t \in (-MaxTokens)..MaxTokens :
       /\ args = [input_exists |-> TRUE, tokens |-> Some(t)]
       /\ tokens_size = Some(t)
  /\ source = <<>>
  /\ run = "first"
  /\ pc = "plan"
  /\ output_dir = TRUE
  /\ mt = TRUE
  /\ scan = [pos |-> 0, total |-> 0, added |-> <<>>]
  /\ token_nums = <<>>
  /\ text_iter = [pos |-> 0, done |-> FALSE]
  /\ split = 0
  /\ total_num_tokens = 0
  /\ count = 0
  /\ files = [s \in SplitIds |-> NoFile]
  /\ report = [s \in SplitIds |-> None]
  /\ unique = [s \in SplitIds |-> None]
  /\ pulled = <<>>
  /\ prev = None
  /\ reader = <<>>
  /\ vocab = None

NextPlan == main_plan

SpecPlan == InitPlan /\ [][NextPlan]_vars

\* The loop of main, lines 162-164, on its own: three write_wikitext calls in
\* sequence on one get_texts generator, with budgets given by the caller.
InitWriters ==
  /\ args = [input_exists |-> TRUE, tokens |-> None]
  /\ source \in Sources
  /\ token_nums \in DirectBudgets
  /\ run = "first"
  /\ pc = "loop"
  /\ split = 1
  /\ output_dir = TRUE
  /\ mt = TRUE
  /\ tokens_size = None
  /\ scan = [pos |-> 0, total |-> 0, added |-> <<>>]
  /\ text_iter = [pos |-> 0, done |-> FALSE]
  /\ total_num_tokens = 0
  /\ count = 0
  /\ files = [s \in SplitIds |-> NoFile]
  /\ report = [s \in SplitIds |-> None]
  /\ unique = [s \in SplitIds |-> None]
  /\ pulled = <<>>
  /\ prev = None
  /\ reader = <<>>
  /\ vocab = None

NextWriters == write_wikitext_open \/ write_wikitext_step

SpecWriters == InitWriters /\ [][NextWriters]_vars

\* ------------------------------------------------- vocabulary of the claims
\* token_count of a text as the specification defines it: for each paragraph
\* the number of its non-empty whitespace-delimited tokens plus one, i.e. the
\* number of places where a token starts plus the number of paragraphs.
TokenCount(text) ==
  Cardinality({i \in 1..Len(text) :
                 /\ text[i] \notin Whitespace
                 /\ (i = 1 \/ text[i - 1] \in Whitespace)})
    + Cardinality({i \in 1..Len(text) : text[i] = NL}) + 1

TokenCountOf == [id \in PoolIds |-> TokenCount(Pool[id].text)]

\* A stub as the specification defines it: trimmed text equals trimmed title.
TrimmedStubOf == [id \in PoolIds |-> Strip(Pool[id].text) = Strip(Pool[id].title)]

Positions == [i \in 1..Len(source) |-> i]

\* The accepted articles of the source, in source order, with the stub test
\* of the specification ...
AcceptedArticles ==
  SelectSeq(Positions,
            LAMBDA i : ~TrimmedStubOf[source[i]] /\ TokenCountOf[source[i]] >= 100)

\* ... and with the stub test of get_texts.
YieldedAccepted ==
  SelectSeq(Positions,
            LAMBDA i : ~StubOf[source[i]] /\ TokenCountOf[source[i]] >= 100)

\* The documents of train, then valid, then test.
Written == files[1].docs \o files[2].docs \o files[3].docs

InFile(i, s) == \E m \in 1..Len(files[s].docs) : files[s].docs[m] = i

\* The budget of the call of split s.
Budget(s) == token_nums[s]

Max(a, b) == IF a >= b THEN a ELSE b

\* ------------------------------------------------------------------ claims

\* The source holds no record whose trimmed text equals its trimmed title:
\* get_texts yields every record, and the stub test of the specification and
\* the one of get_texts agree on every record.
NoStubRecord == \A i \in 1..Len(source) : ~TrimmedStubOf[source[i]]

\* C1 as stated: once main has run the three write_wikitext calls, the
\* documents of train, valid and test, concatenated, are exactly the accepted
\* articles of the source (not a stub, token_count >= 100) in source order.
\* It is stated for the sources without stub records, so that what refutes
\* it is the placement alone and not the stub test.
C1_ExactOncePlacement ==
  (pc = "done" /\ NoStubRecord) => Written = AcceptedArticles

\* C1 as amended: once main has run the three calls, the documents of train,
\* valid and test, concatenated, are a prefix of the articles get_texts yields
\* whose token_count is >= 100, in source order, without repeat or gap; they
\* are all of them when the generator has run to its end.
C1_PrefixPlacement ==
  pc = "done" =>
    /\ Len(Written) <= Len(YieldedAccepted)
    /\ Written = SubSeq(YieldedAccepted, 1, Len(Written))
    /\ (text_iter.done => Written = YieldedAccepted)

\* C1 witness: main is done on a source without stub records, every split
\* holds a document and the test call stopped on its budget before the last
\* accepted article.
C1_Witness ==
  /\ pc = "done"
  /\ NoStubRecord
  /\ \A s \in SplitIds : files[s].docs # <<>>
  /\ Len(Written) < Len(YieldedAccepted)

\* C2: an article pulled from the generator is in the file of the call that
\* pulled it if and only if its token_count is >= 100 (99 is out, 100 is in).
C2_AcceptanceFilter ==
  \A k \in 1..Len(pulled) :
    InFile(pulled[k].idx, pulled[k].split)
      <=> TokenCountOf[source[pulled[k].idx]] >= 100

\* C2 witness: an article of token_count 99 was pulled and not written and
\* one of token_count 100 was pulled and written.
C2_Witness ==
  /\ \E k \in 1..Len(pulled) :
       /\ TokenCountOf[source[pulled[k].idx]] = 99
       /\ ~InFile(pulled[k].idx, pulled[k].split)
  /\ \E k \in 1..Len(pulled) :
       /\ TokenCountOf[source[pulled[k].idx]] = 100
       /\ InFile(pulled[k].idx, pulled[k].split)

\* C3 as stated: a record whose trimmed text equals its trimmed title is never
\* yielded by get_texts and is in no output file.
C3_StubsNeverYielded ==
  \A i \in 1..Len(source) :
    TrimmedStubOf[source[i]] =>
      /\ \A k \in 1..Len(pulled) : pulled[k].idx # i
      /\ \A s \in SplitIds : ~InFile(i, s)

\* C4: for tokens_size >= 0 get_splits returns (tokens_size - 2*s, s, s) with
\* s = floor(tokens_size / 10); the three budgets sum to at most tokens_size;
\* 1000 gives (800, 100, 100) and 0 gives (0, 0, 0).
C4_Planner ==
  (pc = "loop" /\ tokens_size[1] >= 0) =>
    LET t == tokens_size[1]
        s == t \div 10
    IN  /\ token_nums = <<t - 2 * s, s, s>>
        /\ token_nums[1] + token_nums[2] + token_nums[3] <= t
        /\ (t = 1000 => token_nums = <<800, 100, 100>>)
        /\ (t = 0 => token_nums = <<0, 0, 0>>)

\* C4 witness: the planner has turned 1000 into (800, 100, 100).
C4_Witness ==
  pc = "loop" /\ tokens_size = Some(1000) /\ token_nums = <<800, 100, 100>>

\* Whether split s has returned in this run, and the article it wrote last.
Returned(s) == report[s] # None
LastDoc(s) == files[s].docs[Len(files[s].docs)]

\* The parts of C5 that hold as stated: no article is pulled in a call after
\* a written article took accumulated_tokens over the budget, and a call that
\* has just returned found the generator at its end or is over its budget.
C5_StopsAtOnce ==
  /\ \A k \in 1..(Len(pulled) - 1) :
       pulled[k].split = pulled[k + 1].split =>
         ~(/\ TokenCountOf[source[pulled[k].idx]] >= 100
           /\ pulled[k].before + pulled[k].n + 1 > Budget(pulled[k].split))
  /\ (pc = "loop" /\ split > 1) =>
       (text_iter.done \/ report[split - 1][2] > Budget(split - 1))

\* C5 as stated: a call pulls an article only while accumulated_tokens <= B,
\* stops right after the written article that exceeds B, returns with the
\* generator at its end or accumulated_tokens > B, and accumulated_tokens
\* without the last written article is <= B.
C5_BudgetStop ==
  /\ C5_StopsAtOnce
  /\ \A k \in 1..Len(pulled) : pulled[k].before <= Budget(pulled[k].split)
  /\ \A s \in SplitIds :
       (Returned(s) /\ report[s][1] > 0) =>
         report[s][2] - (TokenCountOf[source[LastDoc(s)]] + 1) <= Budget(s)

\* C5 as amended: the budget is tested only after an article is written.  A
\* call pulls an article only while it has written none or accumulated_tokens
\* <= B, stops right after the written article that exceeds B, returns with
\* the generator at its end or accumulated_tokens > B, and accumulated_tokens
\* without the last written article is <= max(B, 0).
C5_BudgetStopAfterWrite ==
  /\ C5_StopsAtOnce
  /\ \A k \in 1..Len(pulled) :
       pulled[k].docs = 0 \/ pulled[k].before <= Budget(pulled[k].split)
  /\ \A s \in SplitIds :
       (Returned(s) /\ report[s][1] > 0) =>
         report[s][2] - (TokenCountOf[source[LastDoc(s)]] + 1) <= Max(Budget(s), 0)

\* C5 witness: a call with a budget >= 0 has just returned over its budget
\* after writing two articles, with the generator not at its end.
C5_Witness ==
  /\ pc = "loop"
  /\ split > 1
  /\ Budget(split - 1) >= 0
  /\ report[split - 1][1] >= 2
  /\ report[split - 1][2] > Budget(split - 1)
  /\ ~text_iter.done

\* C6 as stated: for every record that is not skipped as a stub, the scanner
\* adds tokens to its total if and only if write_wikitext accepts the article.
C6_ScanAgreesWithWriter ==
  \A i \in 1..Len(scan.added) :
    ~StubOf[source[i]] =>
      (scan.added[i] > 0 <=> Accepts(NumTokensOf[source[i]]))

\* The source and the budgets of the end-to-end scenario.
Scenario == source = <<1, 2, 3>> /\ token_nums = <<250, 50, 50>>

\* C7: with articles of token_count 150, 50, 200 and budgets (250, 50, 50)
\* the train call writes the first (151 accumulated), skips the second,
\* writes the third (352 accumulated) and stops; valid and test find the
\* generator at its end and report 0 documents and 0 tokens.
C7_EndToEnd ==
  Scenario =>
    LET pulls == << [idx |-> 1, split |-> 1, n |-> 150, before |-> 0, docs |-> 0],
                    [idx |-> 2, split |-> 1, n |-> 50, before |-> 151, docs |-> 1],
                    [idx |-> 3, split |-> 1, n |-> 200, before |-> 151, docs |-> 1] >>
    IN  /\ Len(pulled) <= 3
        /\ pulled = SubSeq(pulls, 1, Len(pulled))
        /\ (Returned(1) => report[1] = <<2, 352>> /\ files[1].docs = <<1, 3>>)
        /\ (Returned(2) => report[2] = <<0, 0>> /\ files[2].docs = <<>>)
        /\ (Returned(3) => report[3] = <<0, 0>> /\ files[3].docs = <<>>)
        /\ (split > 2 => text_iter.done /\ Len(pulled) = 3)

\* C7 witness: the scenario has run through its three calls.
C7_Witness == Scenario /\ pc = "loop" /\ split = 4 /\ Returned(3)

\* C8: a second run on the same records in the same order with the same
\* --tokens leaves in each file the same articles in the same order as the
\* first run did, and reports the same document and token counts.
C8_Reproducible ==
  (run = "second" /\ pc = "done") =>
    /\ prev[1].files = files
    /\ prev[1].report = report

\* C8 witness: the second run is done and wrote to train and to valid.
C8_Witness ==
  /\ run = "second"
  /\ pc = "done"
  /\ files[1].docs # <<>>
  /\ files[2].docs # <<>>

\* The number of records the generator had consumed when the call of split s
\* started, and whether it could still yield an accepted article then.
StartPos(s) ==
  LET before == {pulled[k].idx : k \in {m \in 1..Len(pulled) : pulled[m].split < s}}
  IN  IF before = {} THEN 0 ELSE CHOOSE i \in before : \A j \in before : j <= i
HoldsAccepted(s) ==
  \E j \in (StartPos(s) + 1)..Len(source) :
    ~StubOf[source[j]] /\ TokenCountOf[source[j]] >= 100

\* C9: a call whose budget is <= 0 never fails and never has more than one
\* document in its file; it returns with exactly one when the generator could
\* still yield an accepted article at its start and with none otherwise.  A
\* run with --tokens 0 ends with at most one document per split.
C9_NonPositiveBudget ==
  /\ args.input_exists => pc # "failed"
  /\ \A s \in SplitIds :
       (token_nums # <<>> /\ Budget(s) <= 0 /\ (s < split \/ (s = split /\ pc = "write"))) =>
         /\ Len(files[s].docs) <= 1
         /\ Returned(s) =>
              /\ report[s][1] = (IF HoldsAccepted(s) THEN 1 ELSE 0)
              /\ Len(files[s].docs) = report[s][1]
  /\ (args.tokens = Some(0) /\ pc = "done") =>
       \A s \in SplitIds : Len(files[s].docs) <= 1

\* C9 witness: a run with --tokens 0 is done with one document in train and
\* one in valid and none in test.
C9_Witness ==
  /\ args.tokens = Some(0)
  /\ pc = "done"
  /\ Len(files[1].docs) = 1 /\ report[1][1] = 1
  /\ Len(files[2].docs) = 1 /\ report[2][1] = 1
  /\ files[3].docs = <<>> /\ report[3] = <<0, 0>>

\* C10: when the input path does not exist main does nothing but fail at its
\* assertion: no directory is made, no tokenizer is constructed, nothing is
\* scanned or planned, no article is pulled and no file is opened.
C10_MissingInput ==
  ~args.input_exists =>
    /\ pc \in {"start", "failed"}
    /\ ~output_dir
    /\ ~mt
    /\ scan.pos = 0
    /\ token_nums = <<>>
    /\ text_iter.pos = 0
    /\ pulled = <<>>
    /\ \A s \in SplitIds : ~files[s].exists /\ report[s] = None

\* C10 witness: main has failed on a missing input path.
C10_Witness == ~args.input_exists /\ pc = "failed"

\* ------------------------------------------------- countUnique on its own
\* countUnique, line 35: str(line).strip().split(), the whitespace-delimited
\* tokens of a line in order.
SplitWhitespace(line) ==
  Tokenize([i \in 1..Len(line) |-> IF line[i] \in Whitespace THEN SP ELSE line[i]])

\* Counter(): a map from token to number of occurrences, empty at first.
EmptyCounter == [t \in {} |-> 0]

\* cnt.update(tokens), line 35, after the first k tokens.
RECURSIVE CounterUpdate(_, _, _)
CounterUpdate(cnt, tokens, k) ==
  IF k = 0 THEN cnt
  ELSE LET c == CounterUpdate(cnt, tokens, k - 1)
           x == tokens[k]
       IN  [t \in DOMAIN c \cup {x} |->
              (IF t \in DOMAIN c THEN c[t] ELSE 0) + (IF t = x THEN 1 ELSE 0)]

\* countUnique, lines 32-35: cnt after the first k lines of the file.
RECURSIVE CountLines(_, _)
CountLines(lines, k) ==
  IF k = 0 THEN EmptyCounter
  ELSE LET tokens == SplitWhitespace(lines[k])
       IN  CounterUpdate(CountLines(lines, k - 1), tokens, Len(tokens))

\* Sum of the counts of a counter.
RECURSIVE CounterTotal(_)
CounterTotal(cnt) ==
  IF DOMAIN cnt = {} THEN 0
  ELSE LET t == CHOOSE x \in DOMAIN cnt : TRUE
       IN  cnt[t] + CounterTotal([u \in DOMAIN cnt \ {t} |-> cnt[u]])

\* Mutant of countUniqueLines: the occurrences are counted, not the keys.
countOccurrences(lines) == CounterTotal(CountLines(lines, Len(lines)))

\* countUnique, lines 31-36, on the lines of a file: len(cnt).
countUniqueLines(lines) == Cardinality(DOMAIN CountLines(lines, Len(lines)))

\* The lines "a b a" and "b c".
ExampleLines == << <<"a", SP, "b", SP, "a">>, <<"b", SP, "c">> >>

\* The lines tried: every line of up to MaxLineLen characters, and the two of
\* the example.
Lines ==
  SeqsUpTo({"a", "b", SP}, MaxLineLen) \cup {ExampleLines[1], ExampleLines[2]}

InitVocab ==
  /\ reader \in SeqsUpTo(Lines, MaxLines) \cup {ExampleLines}
  /\ vocab = None
  /\ args = [input_exists |-> TRUE, tokens |-> None]
  /\ source = <<>>
  /\ run = "first"
  /\ pc = "vocab"
  /\ output_dir = TRUE
  /\ mt = TRUE
  /\ tokens_size = None
  /\ scan = [pos |-> 0, total |-> 0, added |-> <<>>]
  /\ token_nums = <<>>
  /\ text_iter = [pos |-> 0, done |-> FALSE]
  /\ split = 0
  /\ total_num_tokens = 0
  /\ count = 0
  /\ files = [s \in SplitIds |-> NoFile]
  /\ report = [s \in SplitIds |-> None]
  /\ unique = [s \in SplitIds |-> None]
  /\ pulled = <<>>
  /\ prev = None

\* lines 31-36: countUnique reads the file and returns.
countUnique_call ==
  /\ pc = "vocab"
  /\ vocab = None
  /\ vocab' = Some(countUniqueLines(reader))
  /\ UNCHANGED <<args, source, run, pc, output_dir, mt, tokens_size, scan,
                 token_nums, text_iter, split, total_num_tokens, count, files,
                 report, unique, pulled, prev, reader>>

NextVocab == countUnique_call

SpecVocab == InitVocab /\ [][NextVocab]_vars

\* Whether positions i..j of a line are a maximal run of non-whitespace.
IsToken(line, i, j) ==
  /\ i <= j
  /\ \A k \in i..j : line[k] \notin Whitespace
  /\ (i = 1 \/ line[i - 1] \in Whitespace)
  /\ (j = Len(line) \/ line[j + 1] \in Whitespace)

\* The distinct whitespace-delimited tokens that occur anywhere in the lines.
TokensOfLine(line) ==
  {SubSeq(line, p[1], p[2]) :
     p \in {q \in (1..Len(line)) \X (1..Len(line)) : IsToken(line, q[1], q[2])}}

DistinctTokens(lines) == UNION {TokensOfLine(lines[l]) : l \in 1..Len(lines)}

\* C11: countUnique returns the number of distinct whitespace-delimited tokens
\* that occur anywhere in the lines, however often and on whichever line each
\* occurs; for the lines "a b a" and "b c" it returns 3.
C11_VocabCount ==
  vocab # None =>
    /\ vocab[1] = Cardinality(DistinctTokens(reader))
    /\ (reader = ExampleLines => vocab[1] = 3)

\* C11 witness: countUnique has returned 3 for the lines "a b a" and "b c".
C11_Witness == reader = ExampleLines /\ vocab = Some(3)

\* Whether the write_wikitext call of split s has started in this run, and the
\* documents it has written (a file not yet opened in this run may hold the
\* documents of the run before).
Started(s) == pc = "done" \/ s < split \/ (s = split /\ pc = "write")
DocsNow(s) == IF Started(s) THEN files[s].docs ELSE <<>>
WrittenNow == DocsNow(1) \o DocsNow(2) \o DocsNow(3)

\* C12: the generator is made once per run and only moves forward.  Every
\* article pulled is the one get_texts yields next after the article pulled
\* before it, across the calls as within a call, and the generator stands
\* right after the last article pulled (or at its end); an article is pulled
\* by a call only when all the calls before it have returned.  So no article
\* is pulled twice or written to two splits, and the documents of train,
\* valid and test in that order are in source order.
C12_CursorContinuity ==
  /\ \A k \in 1..Len(pulled) :
       /\ pulled[k].idx = NextYield(IF k = 1 THEN 0 ELSE pulled[k - 1].idx)
       /\ \A s \in 1..(pulled[k].split - 1) : Returned(s)
       /\ k > 1 => /\ pulled[k - 1].split <= pulled[k].split
                   /\ pulled[k - 1].idx < pulled[k].idx
  /\ (pc \in {"loop", "write", "done"} /\ ~text_iter.done) =>
       text_iter.pos = (IF pulled = <<>> THEN 0 ELSE pulled[Len(pulled)].idx)
  /\ \A k \in 2..Len(WrittenNow) : WrittenNow[k - 1] < WrittenNow[k]

\* C12 witness: main is done, each of the three calls pulled an article, and
\* the valid call started behind a stub record that get_texts skipped.
C12_Witness ==
  /\ pc = "done"
  /\ \A s \in SplitIds : \E k \in 1..Len(pulled) : pulled[k].split = s
  /\ \E k \in 2..Len(pulled) :
       /\ pulled[k - 1].split = 1
       /\ pulled[k].split = 2
       /\ pulled[k].idx > pulled[k - 1].idx + 1

\* The article pulled last, and a step of write_wikitext that pulls an article
\* of token_count < 100.
LastPulled == pulled[Len(pulled)]
PullsShort ==
  /\ Len(pulled') = Len(pulled) + 1
  /\ TokenCountOf[source[LastPulled'.idx]] < 100

\* No pulled article of token_count < 100 is in a file of this run.
ShortNeverWritten ==
  \A k \in 1..Len(pulled) :
    TokenCountOf[source[pulled[k].idx]] < 100 =>
      \A s \in SplitIds : Started(s) => ~InFile(pulled[k].idx, s)

\* C13: a step that pulls an article of token_count < 100 moves the generator
\* to that article and changes nothing else of the call: the files, the
\* accumulated tokens and the document count stay as they are and the call
\* goes on whatever its budget; the article is in no file then or later.
C13_DiscardFrame ==
  /\ [][PullsShort =>
          /\ text_iter'.pos = NextYield(text_iter.pos)
          /\ text_iter'.pos = LastPulled'.idx
          /\ files' = files
          /\ total_num_tokens' = total_num_tokens
          /\ count' = count
          /\ report' = report
          /\ split' = split
          /\ pc' = pc]_vars
  /\ []ShortNeverWritten

\* C13 witness: the call has just skipped an article of token_count < 100
\* while its accumulated tokens are over its budget, and it goes on.
C13_Witness ==
  /\ pc = "write"
  /\ pulled # <<>>
  /\ LastPulled.split = split
  /\ TokenCountOf[source[LastPulled.idx]] < 100
  /\ total_num_tokens > Budget(split)

\* The sum over the documents of a file of (token_count + 1).
RECURSIVE TokensOfDocs(_, _)
TokensOfDocs(docs, k) ==
  IF k = 0 THEN 0
  ELSE TokensOfDocs(docs, k - 1) + TokenCountOf[source[docs[k]]] + 1

\* What the counters are after the article of entry e of pulled is handled.
DocsAfter(e) == e.docs + (IF TokenCountOf[source[e.idx]] >= 100 THEN 1 ELSE 0)
TokensAfter(e) ==
  e.before + (IF TokenCountOf[source[e.idx]] >= 100
                THEN TokenCountOf[source[e.idx]] + 1 ELSE 0)

\* C14: during a write_wikitext call count is the number of articles written
\* to the split and total_num_tokens is the sum over them of token_count + 1,
\* and the call reports these two numbers when it returns; each call starts
\* from 0 and 0, and from one pulled article to the next the counters grow by
\* what was written and never shrink.
C14_Accounting ==
  /\ pc = "write" =>
       /\ count = Len(files[split].docs)
       /\ total_num_tokens = TokensOfDocs(files[split].docs, count)
  /\ \A s \in SplitIds :
       (Returned(s) /\ Started(s)) =>
         report[s] = <<Len(files[s].docs),
                       TokensOfDocs(files[s].docs, Len(files[s].docs))>>
  /\ \A k \in 1..Len(pulled) :
       /\ (k = 1 \/ pulled[k - 1].split # pulled[k].split) =>
            (pulled[k].docs = 0 /\ pulled[k].before = 0)
       /\ (k > 1 /\ pulled[k - 1].split = pulled[k].split) =>
            /\ pulled[k].docs = DocsAfter(pulled[k - 1])
            /\ pulled[k].before = TokensAfter(pulled[k - 1])
       /\ (k = Len(pulled) /\ pc = "write" /\ pulled[k].split = split) =>
            /\ count = DocsAfter(pulled[k])
            /\ total_num_tokens = TokensAfter(pulled[k])

\* C14 witness: a call that has written two articles and skipped one is
\* still running, and the call before it wrote an article.
C14_Witness ==
  /\ pc = "write"
  /\ split > 1
  /\ count = 2
  /\ files[split - 1].docs # <<>>
  /\ \E k \in 1..Len(pulled) :
       pulled[k].split = split /\ TokenCountOf[source[pulled[k].idx]] < 100

\* The three write_wikitext calls of SpecWriters, which go on as long as a
\* step is possible: the script is one sequential process.
SpecWritersFair == SpecWriters /\ WF_vars(NextWriters)

\* The call of split s found the generator at its end when it started: a call
\* before it has returned without being over its budget.
ExhaustedBefore(s) ==
  \E t \in 1..(s - 1) : Returned(t) /\ ~(report[t][2] > Budget(t))

\* C15: the three write_wikitext calls all return, one after the other; the
\* generator, once at its end, stays there, and a call that starts with the
\* generator at its end pulls nothing and reports 0 documents and 0 tokens.
C15_Termination ==
  /\ <>(pc = "loop" /\ split = Len(splits) + 1 /\ \A s \in SplitIds : Returned(s))
  /\ [][text_iter.done => text_iter'.done]_vars
  /\ [](\A s \in SplitIds :
          ExhaustedBefore(s) =>
            /\ text_iter.done
            /\ \A k \in 1..Len(pulled) : pulled[k].split # s
            /\ Returned(s) => report[s] = <<0, 0>>)

\* C15 witness: the three calls have returned; the train call ran the
\* generator to its end after writing, valid and test pulled nothing.
C15_Witness ==
  /\ pc = "loop"
  /\ split = Len(splits) + 1
  /\ text_iter.done
  /\ files[1].docs # <<>>
  /\ ExhaustedBefore(2)
  /\ report[2] = <<0, 0>>
  /\ report[3] = <<0, 0>>
====
